---- MODULE Spec2Model ----
(***************************************************************************)
(* Proof aggregation coordinator (aggregator/aggregator.go).               *)
(*                                                                         *)
(* State: the proof store, the store's and the L1's last verified batch,   *)
(* the gate (TimeSendFinalProof, verifyingProof), the StateDBMutex, the    *)
(* rendezvous channel finalProof (a joint step of a sending session and    *)
(* the receiving dispatcher), the root context, and the position and the   *)
(* locals of Start(), of every Channel() scheduler loop and of             *)
(* sendFinalProof().                                                       *)
(*                                                                         *)
(* Every store call, prover RPC and L1 call can fail: the outcome is drawn *)
(* with \E at the step that makes the call.                                *)
(***************************************************************************)
EXTENDS Integers, FiniteSets, Sequences, TLC

\* ------------------------------------------------------------- bounds
\* Number of virtual (sequenced, not yet verified) batches: 1..MaxBatch.
MaxBatch == 2
\* cfg.VerifyProofInterval, in clock ticks.
VerifyProofInterval == 1

\* The connected prover sessions (one Channel() call each).
Provers == {"p1", "p2"}

\* No proof / no batch (a nil *state.Proof, a nil *state.Batch).
Nil == <<0, 0>>
\* The store has no verified batch (GetLastVerifiedBatch: ErrNotFound).
NoBatch == -1

\* mockedStateRoot, mockedLocalExitRoot: the roots the mock prover returns
mockedStateRoot ==
    "0x090bcaf734c4f06c93954a827b45a6e8c67b8e0fd1e0a35a1c5982d6961828f9"
mockedLocalExitRoot ==
    "0x17c04c3760510b48c6012742c540a81aba4bca2f78b9d14bfd2f123e2e53ea3e"

\* The roots of a final proof (finalProof.Public) or of a batch row.
RootPair(sr, ler) == [NewStateRoot |-> sr, NewLocalExitRoot |-> ler]

\* No final proof is being built.
NoRoots == RootPair("", "")

VARIABLES
    proofs,        \* state.proof rows: [bn, bnf, gen, payload]
    lastVerified,  \* the store's last verified batch number, or NoBatch
    ethVerified,   \* Ethman.GetLatestVerifiedBatchNum()
    submitted,     \* ranges for which VerifyBatches returned a tx
    virtual,       \* the last batch the L1 has sequenced (virtualized)
    sendIn,        \* a.TimeSendFinalProof - time.Now(), in clock ticks;
                   \* every negative value (the deadline has passed) is -1
    verifying,     \* a.verifyingProof
    mutex,         \* a.StateDBMutex: its holder, or "free"
    ctxDone,       \* a.ctx is cancelled
    crashed,       \* the process died of an unrecovered panic
    startPc,       \* position of Start()
    pc,            \* position of each session
    caller,        \* who called tryBuildFinalProof: "loop", "agg", "gen"
    proof1,        \* tryAggregateProofs: proof1
    proof2,        \* tryAggregateProofs: proof2
    proof,         \* the proof a session works on
    lvb,           \* tryBuildFinalProof: lastVerifiedBatchNum, NoBatch until
                   \* it is read; kept until the calling operation returns
    dpc,           \* position of sendFinalProof()
    msg,           \* sendFinalProof: msg.recursiveProof
    finalProof,    \* buildFinalProof: finalProof.Public, the two roots
    finalBatch,    \* buildFinalProof: the roots of the final batch's row
    buildPc,       \* position of buildFinalProof once WaitFinalProof
                   \* has returned
    idle,          \* prover.IsIdle(), for each session's prover
    etx,           \* an enqueued tx: its kind, its inner tx, the position
                   \* of RenewTxIfNeeded and the error it returned
    etherman       \* what the etherman answers to RenewTxIfNeeded

vars == <<proofs, lastVerified, ethVerified, submitted, virtual, sendIn,
          verifying, mutex, ctxDone, crashed, startPc, pc, caller,
          proof1, proof2, proof, lvb, dpc, msg, finalProof, finalBatch,
          buildPc, idle, etx, etherman>>

storeVars == <<proofs, lastVerified>>
l1Vars == <<ethVerified, submitted, virtual>>
gateVars == <<sendIn, verifying>>
sessVars == <<pc, caller, proof1, proof2, proof, lvb>>
dispVars == <<dpc, msg>>
renewVars == <<etx, etherman>>
buildVars == <<finalProof, finalBatch, buildPc>>

\* ------------------------------------------------------------- store
Key(r) == <<r.bn, r.bnf>>
Row(k, g, pl) == [bn |-> k[1], bnf |-> k[2], gen |-> g, payload |-> pl]
Covers(r, b) == r.bn <= b /\ b <= r.bnf
Overlap(k1, k2) == k1[1] <= k2[2] /\ k2[1] <= k1[2]

\* Batches 1 and 2 form one sequence; every later batch is a sequence.
SequenceEnd(b) == b # 1

CheckProofContainsCompleteSequences(k) ==
    (k[1] = 1 \/ SequenceEnd(k[1] - 1)) /\ SequenceEnd(k[2])

\* 0 when there is none.
GetVirtualBatchToProve(lv) ==
    LET free == {b \in (lv + 1)..virtual : \A r \in proofs : ~Covers(r, b)}
    IN IF free = {} THEN 0 ELSE CHOOSE b \in free : \A c \in free : b <= c

GetProofReadyToVerify(lv) ==
    {Key(r) : r \in {x \in proofs : /\ x.bn = lv + 1
                                   /\ ~x.gen
                                   /\ CheckProofContainsCompleteSequences(Key(x))}}

\* The pairs <<p, q>> of adjacent unlocked proofs with the earliest p.
GetProofsToAggregate ==
    LET pairs == {pq \in proofs \X proofs :
                     /\ ~pq[1].gen /\ ~pq[2].gen
                     /\ pq[1].bnf + 1 = pq[2].bn}
    IN {<<Key(pq[1]), Key(pq[2])>> :
           pq \in {x \in pairs : \A y \in pairs : x[1].bn <= y[1].bn}}

AddGeneratedProof(st, r) == st \cup {r}

UpdateGeneratedProof(st, k, g, pl) ==
    {IF Key(r) = k THEN Row(k, g, pl) ELSE r : r \in st}

DeleteGeneratedProofs(st, from, to) ==
    {r \in st : ~(r.bn >= from /\ r.bnf <= to)}

DeleteUngeneratedProofs(st) == {r \in st : r.payload}

\* -------------------------------------------------------------- gate
\* A faulty gate: the flag alone decides, the deadline is not looked at.
canVerifyProofFlagOnly == ~verifying

\* A faulty gate: open already at the deadline itself (!After instead of
\* Before).
canVerifyProofAtDeadline == sendIn <= 0 /\ ~verifying

\* a.TimeSendFinalProof.Before(time.Now()) and !a.verifyingProof
canVerifyProof == sendIn < 0 /\ ~verifying

\* A faulty barrier: the L1's latest verified batch is not compared.
isSyncedStoreOnly == lastVerified # NoBatch

isSynced ==
    /\ lastVerified # NoBatch
    /\ ~(lastVerified < ethVerified)

\* A *types.Transaction: its identity, nonce, gas limit and gas price.
Tx(id, nonce, gas, gasPrice) ==
    [id |-> id, nonce |-> nonce, gas |-> gas, gasPrice |-> gasPrice]

\* No enqueued tx: RenewTxIfNeeded is not running.
NoEtx == [kind |-> "none", tx |-> Tx(0, 0, 0, 0), pc |-> "off", err |-> "nil"]

\* The etherman is not asked anything.
NoEtherman ==
    [estimateOk |-> TRUE, estimate |-> 0, buildOk |-> TRUE, nonce |-> 0,
     gasPrice |-> 0]

\* -------------------------------------------------------------- init
InitStores == { {}, {Row(<<1, 1>>, TRUE, FALSE)} }

Init ==
    /\ proofs \in InitStores
    /\ lastVerified = NoBatch
    /\ ethVerified = 0
    /\ submitted = {}
    /\ virtual = MaxBatch
    /\ sendIn = -1
    /\ verifying = FALSE
    /\ mutex = "free"
    /\ ctxDone = FALSE
    /\ crashed = FALSE
    /\ startPc = "sweep"
    /\ pc = [s \in Provers |-> "off"]
    /\ caller = [s \in Provers |-> "loop"]
    /\ proof1 = [s \in Provers |-> Nil]
    /\ proof2 = [s \in Provers |-> Nil]
    /\ proof = [s \in Provers |-> Nil]
    /\ lvb = [s \in Provers |-> NoBatch]
    /\ dpc = "off"
    /\ msg = Nil
    /\ finalProof = NoRoots
    /\ finalBatch = NoRoots
    /\ buildPc = "off"
    /\ idle = [s \in Provers |-> TRUE]
    /\ etx = NoEtx
    /\ etherman = NoEtherman


\* ------------------------------------------------------- environment
\* The clock advances by one tick towards (and past) the deadline.
Tick ==
    /\ ~crashed
    /\ sendIn >= 0
    /\ sendIn' = sendIn - 1
    /\ UNCHANGED <<storeVars, l1Vars, verifying, mutex, ctxDone, crashed,
                   startPc, sessVars, dispVars, buildVars, idle, renewVars>>

\* L1 mines a submitted verify-batches tx that starts right after the L1's
\* last verified batch. The txs that no longer start at or after the new
\* last verified batch revert and are gone, like the mined one.
L1Mine ==
    /\ ~crashed
    /\ \E tx \in submitted :
          /\ tx[1] - 1 = ethVerified
          /\ ethVerified' = tx[2]
          /\ submitted' = {t \in submitted : t[1] - 1 >= tx[2]}
    /\ UNCHANGED <<storeVars, virtual, gateVars, mutex, ctxDone, crashed,
                   startPc, sessVars, dispVars, buildVars, idle, renewVars>>

\* The synchronizer brings the store's last verified batch up to the L1's.
Sync ==
    /\ ~crashed
    /\ lastVerified # ethVerified
    /\ lastVerified' = ethVerified
    /\ UNCHANGED <<proofs, l1Vars, gateVars, mutex, ctxDone, crashed,
                   startPc, sessVars, dispVars, buildVars, idle, renewVars>>

\* Stop(): a.exit().
Stop ==
    /\ ~crashed
    /\ startPc # "sweep"
    /\ ~ctxDone
    /\ ctxDone' = TRUE
    /\ UNCHANGED <<storeVars, l1Vars, gateVars, mutex, crashed, startPc,
                   sessVars, dispVars, buildVars, idle, renewVars>>

\* ------------------------------------------------------------- Start
\* Start() up to `go a.srv.Serve(lis)`: the startup sweep, then the server
\* accepts prover streams. A failed sweep ends Start().
StartServe ==
    /\ ~crashed
    /\ startPc = "sweep"
    /\ \E ok \in BOOLEAN :
          IF ok
          THEN /\ proofs' = DeleteUngeneratedProofs(proofs)
               /\ startPc' = "reset"
          ELSE /\ startPc' = "failed"
               /\ UNCHANGED proofs
    /\ UNCHANGED <<lastVerified, l1Vars, gateVars, mutex, ctxDone, crashed,
                   sessVars, dispVars, buildVars, idle, renewVars>>

\* a.resetVerifyProofTime()
resetVerifyProofTime ==
    /\ verifying' = FALSE
    /\ sendIn' = VerifyProofInterval

\* A faulty release: it also moves the deadline, as resetVerifyProofTime
\* does.
enableProofVerificationResetsTime ==
    /\ verifying' = FALSE
    /\ sendIn' = VerifyProofInterval

\* a.enableProofVerification()
enableProofVerification ==
    /\ verifying' = FALSE
    /\ UNCHANGED sendIn

\* Start(): a.resetVerifyProofTime(); go a.sendFinalProof()
StartReset ==
    /\ ~crashed
    /\ startPc = "reset"
    /\ startPc' = "running"
    /\ resetVerifyProofTime
    /\ dpc' = "recv"
    /\ UNCHANGED <<storeVars, l1Vars, mutex, ctxDone, crashed, sessVars, msg,
                   buildVars, idle, renewVars>>

\* ----------------------------------------------------- scheduler loop
ClearLocals(s) ==
    /\ caller' = [caller EXCEPT ![s] = "loop"]
    /\ proof1' = [proof1 EXCEPT ![s] = Nil]
    /\ proof2' = [proof2 EXCEPT ![s] = Nil]
    /\ proof' = [proof EXCEPT ![s] = Nil]
    /\ lvb' = [lvb EXCEPT ![s] = NoBatch]

KeepLocals == UNCHANGED <<caller, proof1, proof2, proof, lvb>>

\* A prover opens its stream: Channel() starts.
Connect(s) ==
    /\ ~crashed
    /\ pc[s] = "off"
    /\ startPc \in {"reset", "running"}
    /\ pc' = [pc EXCEPT ![s] = "loop"]
    /\ KeepLocals
    /\ UNCHANGED <<storeVars, l1Vars, gateVars, mutex, ctxDone, crashed,
                   startPc, dispVars, buildVars, idle, renewVars>>

\* Channel(): case <-a.ctx.Done() / case <-ctx.Done(): the loop returns.
LoopExit(s) ==
    /\ ~crashed
    /\ pc[s] = "loop"
    /\ pc' = [pc EXCEPT ![s] = "done"]
    /\ KeepLocals
    /\ UNCHANGED <<storeVars, l1Vars, gateVars, mutex, ctxDone, crashed,
                   startPc, dispVars, buildVars, idle, renewVars>>

\* A faulty loop: the prover is not asked whether it is idle.
LoopStartUnconditional(s) ==
    /\ ~crashed
    /\ pc[s] = "loop"
    /\ ~ctxDone
    /\ pc' = [pc EXCEPT ![s] = "tbf_gate"]
    /\ caller' = [caller EXCEPT ![s] = "loop"]
    /\ UNCHANGED <<proof1, proof2, proof, lvb>>
    /\ UNCHANGED <<storeVars, l1Vars, gateVars, mutex, ctxDone, crashed,
                   startPc, dispVars, buildVars, idle, renewVars>>

\* Channel(): default, the prover is idle: tryBuildFinalProof(ctx, prover, nil)
LoopStart(s) ==
    /\ ~crashed
    /\ pc[s] = "loop"
    /\ ~ctxDone
    /\ idle[s]
    /\ pc' = [pc EXCEPT ![s] = "tbf_gate"]
    /\ caller' = [caller EXCEPT ![s] = "loop"]
    /\ UNCHANGED <<proof1, proof2, proof, lvb>>
    /\ UNCHANGED <<storeVars, l1Vars, gateVars, mutex, ctxDone, crashed,
                   startPc, dispVars, buildVars, idle, renewVars>>

\* ------------------------------------------------ tryBuildFinalProof
\* Where the caller goes when tryBuildFinalProof returns res:
\* "built" (true, nil), "notbuilt" (false, nil), "err" (false, err).
AfterTbf(c, res) ==
    CASE c = "loop" -> "agg_select"
      [] c = "agg" -> IF res = "err" THEN "agg_unlock_tbf"
                      ELSE IF res = "built" THEN "loop" ELSE "agg_release"
      [] c = "gen" -> IF res = "err" THEN "gen_cleanup"
                      ELSE IF res = "built" THEN "loop" ELSE "gen_release"

TbfReturn(s, res) ==
    LET nxt == AfterTbf(caller[s], res)
    IN /\ pc' = [pc EXCEPT ![s] = nxt]
       /\ IF nxt \in {"loop", "agg_select"}
          THEN ClearLocals(s)
          ELSE /\ caller' = [caller EXCEPT ![s] = "loop"]
               /\ lvb' = [lvb EXCEPT ![s] =
                            IF res = "notbuilt" THEN lvb[s] ELSE NoBatch]
               /\ UNCHANGED <<proof1, proof2, proof>>

\* if !a.canVerifyProof() { return false, nil }
TbfGate(s) ==
    /\ ~crashed
    /\ pc[s] = "tbf_gate"
    /\ IF canVerifyProof
       THEN /\ verifying' = TRUE
            /\ UNCHANGED sendIn
            /\ pc' = [pc EXCEPT ![s] = "tbf_sync"]
            /\ KeepLocals
       ELSE /\ UNCHANGED gateVars
            /\ TbfReturn(s, "notbuilt")
    /\ UNCHANGED <<storeVars, l1Vars, mutex, ctxDone, crashed, startPc,
                   dispVars, buildVars, idle, renewVars>>

\* for !a.isSynced(ctx) { sleep }: the loop ends when isSynced() is true.
TbfSync(s) ==
    /\ ~crashed
    /\ pc[s] = "tbf_sync"
    /\ isSynced
    /\ pc' = [pc EXCEPT ![s] = "tbf_lvb"]
    /\ KeepLocals
    /\ UNCHANGED <<storeVars, l1Vars, gateVars, mutex, ctxDone, crashed,
                   startPc, dispVars, buildVars, idle, renewVars>>

\* a.State.GetLastVerifiedBatch(ctx, nil)
TbfLastVerified(s) ==
    /\ ~crashed
    /\ pc[s] = "tbf_lvb"
    /\ \E ok \in BOOLEAN :
          IF ok
          THEN /\ lvb' = [lvb EXCEPT ![s] =
                            IF lastVerified = NoBatch THEN 0 ELSE lastVerified]
               /\ pc' = [pc EXCEPT ![s] =
                            IF proof[s] = Nil THEN "rtv_select"
                            ELSE "tbf_validate"]
               /\ UNCHANGED <<caller, proof1, proof2, proof>>
          ELSE /\ pc' = [pc EXCEPT ![s] = "tbf_enable"]
               /\ KeepLocals
    /\ UNCHANGED <<storeVars, l1Vars, gateVars, mutex, ctxDone, crashed,
                   startPc, dispVars, buildVars, idle, renewVars>>

\* A faulty lock: a.StateDBMutex never makes a session wait.
MutexIgnored == TRUE

\* Whether a session can take a.StateDBMutex.
MutexFree == mutex = "free"

\* getAndLockProofReadyToVerify: StateDBMutex.Lock(); GetProofReadyToVerify
RtvSelect(s) ==
    /\ ~crashed
    /\ pc[s] = "rtv_select"
    /\ MutexFree
    /\ \/ \E k \in GetProofReadyToVerify(lvb[s]) :
             /\ proof' = [proof EXCEPT ![s] = k]
             /\ mutex' = s
             /\ pc' = [pc EXCEPT ![s] = "rtv_stamp"]
             /\ UNCHANGED <<caller, proof1, proof2, lvb>>
       \/ \* ErrNotFound, or the store fails: the mutex is released
          /\ pc' = [pc EXCEPT ![s] = "tbf_enable"]
          /\ UNCHANGED mutex
          /\ KeepLocals
    /\ UNCHANGED <<storeVars, l1Vars, gateVars, ctxDone, crashed, startPc,
                   dispVars, buildVars, idle, renewVars>>

\* getAndLockProofReadyToVerify: Generating = true; UpdateGeneratedProof;
\* StateDBMutex.Unlock()
RtvStamp(s) ==
    /\ ~crashed
    /\ pc[s] = "rtv_stamp"
    /\ mutex' = "free"
    /\ \E ok \in BOOLEAN :
          IF ok
          THEN /\ proofs' = UpdateGeneratedProof(proofs, proof[s], TRUE, TRUE)
               /\ pc' = [pc EXCEPT ![s] = "tbf_build"]
               /\ KeepLocals
          ELSE /\ UNCHANGED proofs
               /\ pc' = [pc EXCEPT ![s] = "tbf_enable"]
               /\ proof' = [proof EXCEPT ![s] = Nil]
               /\ UNCHANGED <<caller, proof1, proof2, lvb>>
    /\ UNCHANGED <<lastVerified, l1Vars, gateVars, ctxDone, crashed, startPc,
                   dispVars, buildVars, idle, renewVars>>

\* A faulty eligibility check: the batch number is not compared with the
\* last verified one.
validateCompleteSequencesOnly(k, lv) ==
    CheckProofContainsCompleteSequences(k)

\* validateEligibleFinalProof(ctx, proof, lastVerifiedBatchNum)
validateEligibleFinalProof(k, lv) ==
    /\ k[1] = lv + 1
    /\ CheckProofContainsCompleteSequences(k)

\* tryBuildFinalProof with a proof: the eligibility check. A proof that is
\* not eligible returns (false, nil) with err == nil: no defer acts.
TbfValidate(s) ==
    /\ ~crashed
    /\ pc[s] = "tbf_validate"
    /\ \/ /\ validateEligibleFinalProof(proof[s], lvb[s])
          /\ pc' = [pc EXCEPT ![s] = "tbf_build"]
          /\ KeepLocals
       \/ /\ ~validateEligibleFinalProof(proof[s], lvb[s])
          /\ TbfReturn(s, "notbuilt")
       \/ \* CheckProofContainsCompleteSequences fails
          /\ proof[s][1] = lvb[s] + 1
          /\ pc' = [pc EXCEPT ![s] = "tbf_enable"]
          /\ KeepLocals
    /\ UNCHANGED <<storeVars, l1Vars, gateVars, mutex, ctxDone, crashed,
                   startPc, dispVars, buildVars, idle, renewVars>>

\* buildFinalProof: GetPublicAddress, prover.FinalProof, WaitFinalProof
TbfBuild(s) ==
    /\ ~crashed
    /\ pc[s] = "tbf_build"
    /\ \E ok \in BOOLEAN :
          pc' = [pc EXCEPT ![s] =
                   IF ok THEN "tbf_send"
                   ELSE IF caller[s] = "loop" THEN "tbf_unlock"
                   ELSE "tbf_enable"]
    /\ KeepLocals
    /\ UNCHANGED <<storeVars, l1Vars, gateVars, mutex, ctxDone, crashed,
                   startPc, dispVars, buildVars, idle, renewVars>>

\* select { case a.finalProof <- msg } with sendFinalProof's
\* case msg := <-a.finalProof: the rendezvous.
TbfSend(s) ==
    /\ ~crashed
    /\ pc[s] = "tbf_send"
    /\ dpc = "recv"
    /\ dpc' = "verify"
    /\ msg' = proof[s]
    /\ TbfReturn(s, "built")
    /\ UNCHANGED <<storeVars, l1Vars, gateVars, mutex, ctxDone, crashed,
                   startPc, buildVars, idle, renewVars>>

\* select { case <-a.ctx.Done(): return false, a.ctx.Err() }: err is not
\* assigned, so no defer acts.
TbfSendCancelled(s) ==
    /\ ~crashed
    /\ pc[s] = "tbf_send"
    /\ ctxDone
    /\ TbfReturn(s, "err")
    /\ UNCHANGED <<storeVars, l1Vars, gateVars, mutex, ctxDone, crashed,
                   startPc, dispVars, buildVars, idle, renewVars>>

\* The second defer of tryBuildFinalProof (proof == nil path, err != nil):
\* proof.Generating = false; UpdateGeneratedProof
TbfUnlock(s) ==
    /\ ~crashed
    /\ pc[s] = "tbf_unlock"
    /\ \E ok \in BOOLEAN :
          proofs' = IF ok
                    THEN UpdateGeneratedProof(proofs, proof[s], FALSE, TRUE)
                    ELSE proofs
    /\ pc' = [pc EXCEPT ![s] = "tbf_enable"]
    /\ KeepLocals
    /\ UNCHANGED <<lastVerified, l1Vars, gateVars, mutex, ctxDone, crashed,
                   startPc, dispVars, buildVars, idle, renewVars>>

\* The first defer of tryBuildFinalProof (err != nil):
\* a.enableProofVerification()
TbfEnable(s) ==
    /\ ~crashed
    /\ pc[s] = "tbf_enable"
    /\ enableProofVerification
    /\ TbfReturn(s, "err")
    /\ UNCHANGED <<storeVars, l1Vars, mutex, ctxDone, crashed, startPc,
                   dispVars, buildVars, idle, renewVars>>


\* ------------------------------------------------ tryAggregateProofs
\* getAndLockProofsToAggregate: StateDBMutex.Lock(); GetProofsToAggregate
AggSelect(s) ==
    /\ ~crashed
    /\ pc[s] = "agg_select"
    /\ MutexFree
    /\ \/ \E pq \in GetProofsToAggregate :
             /\ proof1' = [proof1 EXCEPT ![s] = pq[1]]
             /\ proof2' = [proof2 EXCEPT ![s] = pq[2]]
             /\ mutex' = s
             /\ pc' = [pc EXCEPT ![s] = "agg_stamp"]
             /\ UNCHANGED <<caller, proof, lvb>>
       \/ \* ErrNotFound, or the store fails: tryGenerateBatchProof is next
          /\ pc' = [pc EXCEPT ![s] = "gen_select"]
          /\ UNCHANGED mutex
          /\ KeepLocals
    /\ UNCHANGED <<storeVars, l1Vars, gateVars, ctxDone, crashed, startPc,
                   dispVars, buildVars, idle, renewVars>>

\* A faulty lock: the transaction commits without Generating = true.
AggStampNothing(s) ==
    /\ ~crashed
    /\ pc[s] = "agg_stamp"
    /\ mutex' = "free"
    /\ pc' = [pc EXCEPT ![s] = "agg_prove"]
    /\ KeepLocals
    /\ UNCHANGED <<storeVars, l1Vars, gateVars, ctxDone, crashed, startPc,
                   dispVars, buildVars, idle, renewVars>>

\* A faulty stamping: the error path returns without StateDBMutex.Unlock().
AggStampErrorKeepsMutex(s) ==
    /\ ~crashed
    /\ pc[s] = "agg_stamp"
    /\ \E ok \in BOOLEAN :
          IF ok
          THEN /\ mutex' = "free"
               /\ proofs' = UpdateGeneratedProof(
                               UpdateGeneratedProof(proofs, proof1[s], TRUE, TRUE),
                               proof2[s], TRUE, TRUE)
               /\ pc' = [pc EXCEPT ![s] = "agg_prove"]
               /\ KeepLocals
          ELSE /\ UNCHANGED <<proofs, mutex>>
               /\ pc' = [pc EXCEPT ![s] = "gen_select"]
               /\ ClearLocals(s)
    /\ UNCHANGED <<lastVerified, l1Vars, gateVars, ctxDone, crashed, startPc,
                   dispVars, buildVars, idle, renewVars>>

\* getAndLockProofsToAggregate: both proofs Generating = true in one
\* transaction; StateDBMutex.Unlock()
AggStamp(s) ==
    /\ ~crashed
    /\ pc[s] = "agg_stamp"
    /\ mutex' = "free"
    /\ \E ok \in BOOLEAN :
          IF ok
          THEN /\ proofs' = UpdateGeneratedProof(
                               UpdateGeneratedProof(proofs, proof1[s], TRUE, TRUE),
                               proof2[s], TRUE, TRUE)
               /\ pc' = [pc EXCEPT ![s] = "agg_prove"]
               /\ KeepLocals
          ELSE /\ UNCHANGED proofs
               /\ pc' = [pc EXCEPT ![s] = "gen_select"]
               /\ ClearLocals(s)
    /\ UNCHANGED <<lastVerified, l1Vars, gateVars, ctxDone, crashed, startPc,
                   dispVars, buildVars, idle, renewVars>>

\* prover.AggregatedProof; prover.WaitRecursiveProof
AggProve(s) ==
    /\ ~crashed
    /\ pc[s] = "agg_prove"
    /\ \E ok \in BOOLEAN :
          pc' = [pc EXCEPT ![s] = IF ok THEN "agg_commit" ELSE "agg_unlock"]
    /\ KeepLocals
    /\ UNCHANGED <<storeVars, l1Vars, gateVars, mutex, ctxDone, crashed,
                   startPc, dispVars, buildVars, idle, renewVars>>

\* A faulty replace transaction: the inputs are not deleted.
AggReplaceKeepInputs(st, k1, k2) ==
    AddGeneratedProof(st, Row(<<k1[1], k2[2]>>, TRUE, TRUE))

\* The store after the replace transaction of tryAggregateProofs commits:
\* DeleteGeneratedProofs(proof1.BatchNumber, proof2.BatchNumberFinal), then
\* AddGeneratedProof(proof) with Generating: true.
AggReplace(st, k1, k2) ==
    AddGeneratedProof(DeleteGeneratedProofs(st, k1[1], k2[2]),
                      Row(<<k1[1], k2[2]>>, TRUE, TRUE))

\* tryAggregateProofs: BeginStateTransaction, DeleteGeneratedProofs,
\* AddGeneratedProof, Commit; then tryBuildFinalProof(ctx, prover, proof)
AggCommit(s) ==
    /\ ~crashed
    /\ pc[s] = "agg_commit"
    /\ \E ok \in BOOLEAN :
          IF ok
          THEN /\ proofs' = AggReplace(proofs, proof1[s], proof2[s])
               /\ proof' = [proof EXCEPT ![s] = <<proof1[s][1], proof2[s][2]>>]
               /\ caller' = [caller EXCEPT ![s] = "agg"]
               /\ pc' = [pc EXCEPT ![s] = "tbf_gate"]
               /\ UNCHANGED <<proof1, proof2, lvb>>
          ELSE /\ UNCHANGED proofs
               /\ pc' = [pc EXCEPT ![s] = "agg_unlock"]
               /\ KeepLocals
    /\ UNCHANGED <<lastVerified, l1Vars, gateVars, mutex, ctxDone, crashed,
                   startPc, dispVars, buildVars, idle, renewVars>>

\* A faulty unlock: the transaction commits after proof1 only.
unlockFirstProofOnly(st, k1, k2) == UpdateGeneratedProof(st, k1, FALSE, TRUE)

\* The store after unlockProofsToAggregate(proof1, proof2) commits.
unlockProofsToAggregate(st, k1, k2) ==
    UpdateGeneratedProof(UpdateGeneratedProof(st, k1, FALSE, TRUE),
                         k2, FALSE, TRUE)

\* The returns of tryAggregateProofs that leave err != nil: before the
\* replace transaction committed ("agg_unlock"), after the chained
\* tryBuildFinalProof failed ("agg_unlock_tbf"), after the release of the
\* aggregated proof failed ("agg_unlock_rel").
AggErrReturns == {"agg_unlock", "agg_unlock_tbf", "agg_unlock_rel"}

\* The defer of tryAggregateProofs (err != nil): unlockProofsToAggregate;
\* tryAggregateProofs returns (false, err), tryGenerateBatchProof is next.
AggUnlock(s) ==
    /\ ~crashed
    /\ pc[s] \in AggErrReturns
    /\ \E ok \in BOOLEAN :
          proofs' = IF ok
                    THEN unlockProofsToAggregate(proofs, proof1[s], proof2[s])
                    ELSE proofs
    /\ pc' = [pc EXCEPT ![s] = "gen_select"]
    /\ ClearLocals(s)
    /\ UNCHANGED <<lastVerified, l1Vars, gateVars, mutex, ctxDone, crashed,
                   startPc, dispVars, buildVars, idle, renewVars>>

\* tryAggregateProofs, !finalProofBuilt: proof.Generating = false;
\* UpdateGeneratedProof. A failure returns err and runs the defer.
AggRelease(s) ==
    /\ ~crashed
    /\ pc[s] = "agg_release"
    /\ \E ok \in BOOLEAN :
          IF ok
          THEN /\ proofs' = UpdateGeneratedProof(proofs, proof[s], FALSE, TRUE)
               /\ pc' = [pc EXCEPT ![s] = "loop"]
               /\ ClearLocals(s)
          ELSE /\ UNCHANGED proofs
               /\ pc' = [pc EXCEPT ![s] = "agg_unlock_rel"]
               /\ KeepLocals
    /\ UNCHANGED <<lastVerified, l1Vars, gateVars, mutex, ctxDone, crashed,
                   startPc, dispVars, buildVars, idle, renewVars>>

\* --------------------------------------------- tryGenerateBatchProof
\* A faulty selection: a batch counts as proven only when a proof starts at
\* it, so the later batches of an aggregated proof are selected again.
BatchToProveByFirstBatch ==
    LET free == {b \in (lastVerified + 1)..virtual :
                    \A r \in proofs : r.bn # b}
    IN IF lastVerified = NoBatch \/ free = {} THEN 0
       ELSE CHOOSE b \in free : \A c \in free : b <= c

\* A faulty getAndLockBatchToProve: the batch after the last verified one,
\* whatever the store holds.
BatchToProveAfterLastVerified ==
    IF lastVerified = NoBatch \/ lastVerified >= virtual THEN 0
    ELSE lastVerified + 1

\* getAndLockBatchToProve: GetLastVerifiedBatch, then
\* GetVirtualBatchToProve(lastVerifiedBatch.BatchNumber); 0 when either
\* returns ErrNotFound.
BatchToProve ==
    IF lastVerified = NoBatch THEN 0
    ELSE GetVirtualBatchToProve(lastVerified)

\* getAndLockBatchToProve up to the profitability check:
\* StateDBMutex.Lock(); GetLastVerifiedBatch; GetVirtualBatchToProve;
\* ProfitabilityChecker.IsProfitable
GenSelect(s) ==
    /\ ~crashed
    /\ pc[s] = "gen_select"
    /\ MutexFree
    /\ \/ \* a batch to prove, and it is profitable
          /\ BatchToProve # 0
          /\ proof' = [proof EXCEPT ![s] = <<BatchToProve, BatchToProve>>]
          /\ mutex' = s
          /\ pc' = [pc EXCEPT ![s] = "gen_insert"]
          /\ UNCHANGED <<caller, proof1, proof2, lvb>>
       \/ \* a batch to prove, and it is not profitable:
          \* return nil, nil, err with err == nil
          /\ BatchToProve # 0
          /\ pc' = [pc EXCEPT ![s] = "gen_nil"]
          /\ UNCHANGED mutex
          /\ KeepLocals
       \/ \* ErrNotFound, a store failure or a profitability-check failure:
          \* tryGenerateBatchProof returns, the loop sleeps RetryTime
          /\ pc' = [pc EXCEPT ![s] = "loop"]
          /\ UNCHANGED mutex
          /\ KeepLocals
    /\ UNCHANGED <<storeVars, l1Vars, gateVars, ctxDone, crashed, startPc,
                   dispVars, buildVars, idle, renewVars>>

\* tryGenerateBatchProof after getAndLockBatchToProve returned
\* (nil, nil, nil): err0 is nil, and batchToProve.BatchNumber dereferences
\* the nil batch. The panic is not recovered: the process dies.
GenNilDeref(s) ==
    /\ ~crashed
    /\ pc[s] = "gen_nil"
    /\ crashed' = TRUE
    /\ pc' = [pc EXCEPT ![s] = "panic"]
    /\ KeepLocals
    /\ UNCHANGED <<storeVars, l1Vars, gateVars, mutex, ctxDone, startPc,
                   dispVars, buildVars, idle, renewVars>>

\* getAndLockBatchToProve: AddGeneratedProof of the row with
\* Generating: true; StateDBMutex.Unlock()
GenInsert(s) ==
    /\ ~crashed
    /\ pc[s] = "gen_insert"
    /\ mutex' = "free"
    /\ \E ok \in BOOLEAN :
          IF ok
          THEN /\ proofs' = AddGeneratedProof(proofs, Row(proof[s], TRUE, FALSE))
               /\ pc' = [pc EXCEPT ![s] = "gen_prove"]
               /\ KeepLocals
          ELSE /\ UNCHANGED proofs
               /\ pc' = [pc EXCEPT ![s] = "loop"]
               /\ ClearLocals(s)
    /\ UNCHANGED <<lastVerified, l1Vars, gateVars, ctxDone, crashed, startPc,
                   dispVars, buildVars, idle, renewVars>>

\* buildInputProver; prover.BatchProof; prover.WaitRecursiveProof; then
\* tryBuildFinalProof(ctx, prover, proof)
GenProve(s) ==
    /\ ~crashed
    /\ pc[s] = "gen_prove"
    /\ \E ok \in BOOLEAN :
          IF ok
          THEN /\ pc' = [pc EXCEPT ![s] = "tbf_gate"]
               /\ caller' = [caller EXCEPT ![s] = "gen"]
          ELSE /\ pc' = [pc EXCEPT ![s] = "gen_cleanup"]
               /\ UNCHANGED caller
    /\ UNCHANGED <<proof1, proof2, proof, lvb>>
    /\ UNCHANGED <<storeVars, l1Vars, gateVars, mutex, ctxDone, crashed,
                   startPc, dispVars, buildVars, idle, renewVars>>

\* The defer of tryGenerateBatchProof (err != nil):
\* DeleteGeneratedProofs(proof.BatchNumber, proof.BatchNumberFinal)
GenCleanup(s) ==
    /\ ~crashed
    /\ pc[s] = "gen_cleanup"
    /\ \E ok \in BOOLEAN :
          proofs' = IF ok
                    THEN DeleteGeneratedProofs(proofs, proof[s][1], proof[s][2])
                    ELSE proofs
    /\ pc' = [pc EXCEPT ![s] = "loop"]
    /\ ClearLocals(s)
    /\ UNCHANGED <<lastVerified, l1Vars, gateVars, mutex, ctxDone, crashed,
                   startPc, dispVars, buildVars, idle, renewVars>>

\* A faulty release: it sets generating=false on every row of the store.
GenReleaseEveryRow(s) ==
    /\ ~crashed
    /\ pc[s] = "gen_release"
    /\ proofs' = {Row(Key(r), FALSE, TRUE) : r \in proofs}
    /\ pc' = [pc EXCEPT ![s] = "loop"]
    /\ ClearLocals(s)
    /\ UNCHANGED <<lastVerified, l1Vars, gateVars, mutex, ctxDone, crashed,
                   startPc, dispVars, buildVars, idle, renewVars>>

\* tryGenerateBatchProof, !finalProofBuilt: proof.Generating = false;
\* UpdateGeneratedProof. A failure returns err and runs the defer.
GenRelease(s) ==
    /\ ~crashed
    /\ pc[s] = "gen_release"
    /\ \E ok \in BOOLEAN :
          IF ok
          THEN /\ proofs' = UpdateGeneratedProof(proofs, proof[s], FALSE, TRUE)
               /\ pc' = [pc EXCEPT ![s] = "loop"]
               /\ ClearLocals(s)
          ELSE /\ UNCHANGED proofs
               /\ pc' = [pc EXCEPT ![s] = "gen_cleanup"]
               /\ KeepLocals
    /\ UNCHANGED <<lastVerified, l1Vars, gateVars, mutex, ctxDone, crashed,
                   startPc, dispVars, buildVars, idle, renewVars>>

\* ------------------------------------------------------ sendFinalProof
\* case <-a.ctx.Done(): return
DispExit ==
    /\ ~crashed
    /\ dpc = "recv"
    /\ ctxDone
    /\ dpc' = "done"
    /\ UNCHANGED <<storeVars, l1Vars, gateVars, mutex, ctxDone, crashed,
                   startPc, sessVars, msg, buildVars, idle, renewVars>>

\* GetBatchByNumber fails: a.enableProofVerification(); continue
DispLoadFail ==
    /\ ~crashed
    /\ dpc = "verify"
    /\ enableProofVerification
    /\ dpc' = "recv"
    /\ msg' = Nil
    /\ UNCHANGED <<storeVars, l1Vars, mutex, ctxDone, crashed, startPc,
                   sessVars, buildVars, idle, renewVars>>

\* As DispVerifyOk, but the call passes proof.BatchNumber as the last
\* verified batch instead of proof.BatchNumber-1.
DispVerifyOkFromFirst ==
    /\ ~crashed
    /\ dpc = "verify"
    /\ submitted' = submitted \cup {<<msg[1] + 1, msg[2]>>}
    /\ dpc' = "sync"
    /\ UNCHANGED <<storeVars, ethVerified, virtual, gateVars, mutex, ctxDone,
                   crashed, startPc, sessVars, msg, buildVars, idle,
                   renewVars>>

\* EthTxManager.VerifyBatches(ctx, proof.BatchNumber-1,
\* proof.BatchNumberFinal, &inputs) returns a tx
DispVerifyOk ==
    /\ ~crashed
    /\ dpc = "verify"
    /\ submitted' = submitted \cup {msg}
    /\ dpc' = "sync"
    /\ UNCHANGED <<storeVars, ethVerified, virtual, gateVars, mutex, ctxDone,
                   crashed, startPc, sessVars, msg, buildVars, idle,
                   renewVars>>

\* EthTxManager.VerifyBatches returns an error
DispVerifyFail ==
    /\ ~crashed
    /\ dpc = "verify"
    /\ dpc' = "unlock"
    /\ UNCHANGED <<storeVars, l1Vars, gateVars, mutex, ctxDone, crashed,
                   startPc, sessVars, msg, buildVars, idle, renewVars>>

\* proof.Generating = false; UpdateGeneratedProof(ctx, proof, nil)
DispUnlock ==
    /\ ~crashed
    /\ dpc = "unlock"
    /\ \E ok \in BOOLEAN :
          proofs' = IF ok THEN UpdateGeneratedProof(proofs, msg, FALSE, TRUE)
                    ELSE proofs
    /\ dpc' = "enable"
    /\ UNCHANGED <<lastVerified, l1Vars, gateVars, mutex, ctxDone, crashed,
                   startPc, sessVars, msg, buildVars, idle, renewVars>>

\* a.enableProofVerification(); continue
DispEnable ==
    /\ ~crashed
    /\ dpc = "enable"
    /\ enableProofVerification
    /\ dpc' = "recv"
    /\ msg' = Nil
    /\ UNCHANGED <<storeVars, l1Vars, mutex, ctxDone, crashed, startPc,
                   sessVars, buildVars, idle, renewVars>>

\* A faulty dispatcher: it does not wait for the synchronizer.
DispSyncNoWait ==
    /\ ~crashed
    /\ dpc = "sync"
    /\ dpc' = "reset"
    /\ UNCHANGED <<storeVars, l1Vars, gateVars, mutex, ctxDone, crashed,
                   startPc, sessVars, msg, buildVars, idle, renewVars>>

\* for !a.isSynced(a.ctx) { sleep }: the loop ends when isSynced() is true.
DispSync ==
    /\ ~crashed
    /\ dpc = "sync"
    /\ isSynced
    /\ dpc' = "reset"
    /\ UNCHANGED <<storeVars, l1Vars, gateVars, mutex, ctxDone, crashed,
                   startPc, sessVars, msg, buildVars, idle, renewVars>>

\* a.resetVerifyProofTime()
DispReset ==
    /\ ~crashed
    /\ dpc = "reset"
    /\ resetVerifyProofTime
    /\ dpc' = "delete"
    /\ UNCHANGED <<storeVars, l1Vars, mutex, ctxDone, crashed, startPc,
                   sessVars, msg, buildVars, idle, renewVars>>

\* A faulty clean-up: the verified proof is unlocked, not deleted.
DispDeleteUnlocks ==
    /\ ~crashed
    /\ dpc = "delete"
    /\ proofs' = UpdateGeneratedProof(proofs, msg, FALSE, TRUE)
    /\ dpc' = "recv"
    /\ msg' = Nil
    /\ UNCHANGED <<lastVerified, l1Vars, gateVars, mutex, ctxDone, crashed,
                   startPc, sessVars, buildVars, idle, renewVars>>

\* DeleteGeneratedProofs(ctx, proof.BatchNumber, proof.BatchNumberFinal, nil)
DispDelete ==
    /\ ~crashed
    /\ dpc = "delete"
    /\ \E ok \in BOOLEAN :
          proofs' = IF ok THEN DeleteGeneratedProofs(proofs, msg[1], msg[2])
                    ELSE proofs
    /\ dpc' = "recv"
    /\ msg' = Nil
    /\ UNCHANGED <<lastVerified, l1Vars, gateVars, mutex, ctxDone, crashed,
                   startPc, sessVars, buildVars, idle, renewVars>>

\* ------------------------------------------------------ specification
SessionStep(s) ==
    \/ Connect(s) \/ LoopExit(s) \/ LoopStart(s)
    \/ TbfGate(s) \/ TbfSync(s) \/ TbfLastVerified(s)
    \/ RtvSelect(s) \/ RtvStamp(s) \/ TbfValidate(s) \/ TbfBuild(s)
    \/ TbfSend(s) \/ TbfSendCancelled(s) \/ TbfUnlock(s) \/ TbfEnable(s)
    \/ AggSelect(s) \/ AggStamp(s) \/ AggProve(s) \/ AggCommit(s)
    \/ AggUnlock(s) \/ AggRelease(s)
    \/ GenSelect(s) \/ GenNilDeref(s) \/ GenInsert(s) \/ GenProve(s)
    \/ GenCleanup(s) \/ GenRelease(s)

DispatcherStep ==
    \/ DispExit \/ DispLoadFail \/ DispVerifyOk \/ DispVerifyFail
    \/ DispUnlock \/ DispEnable \/ DispSync \/ DispReset \/ DispDelete

\* An unrecovered panic ends the process: no step is taken once crashed.
Next ==
    \/ Tick \/ L1Mine \/ Sync \/ Stop
    \/ StartServe \/ StartReset
    \/ DispatcherStep
    \/ \E s \in Provers : SessionStep(s)

Spec == Init /\ [][Next]_vars


\* -------------------------------------------------------------- claims
\* The sessions that passed canVerifyProof() and have neither released the
\* gate nor handed their proof to the dispatcher.
GateSessions ==
    {s \in Provers : pc[s] \in {"tbf_sync", "tbf_lvb", "rtv_select",
                                "rtv_stamp", "tbf_validate", "tbf_build",
                                "tbf_send", "tbf_unlock", "tbf_enable"}}

\* The dispatcher holds a received message whose gate is not released yet.
DispatcherBusy == dpc \in {"verify", "unlock", "enable", "sync", "reset"}

\* C1: at most one final proof is in flight: between a canVerifyProof() that
\* returned true and its release at most one holder exists, counting the
\* sessions past the gate and the message held by the dispatcher.
C1_OneFinalProofInFlight ==
    Cardinality(GateSessions) + (IF DispatcherBusy THEN 1 ELSE 0) <= 1

\* The rows (or the batch) a session has claimed: selected and stamped or
\* inserted with generating=true, until it gives them up (its operation
\* returns, or tryBuildFinalProof's defer has unlocked the row it selected).
Claimed(s) ==
    IF \/ pc[s] \in {"rtv_stamp", "agg_stamp", "gen_insert"}
       \/ (pc[s] = "tbf_enable" /\ caller[s] = "loop")
    THEN {}
    ELSE {proof1[s], proof2[s], proof[s]} \ {Nil}

\* C2: a unit of work is claimed by at most one session: no two sessions
\* hold the same proof row or the same batch.
C2_ExclusiveClaims ==
    \A s, t \in Provers : s # t => Claimed(s) \cap Claimed(t) = {}

\* C2 witness: two sessions work on claimed units at the same time.
C2_Witness ==
    \E s, t \in Provers :
        /\ s # t
        /\ pc[s] = "gen_prove" /\ pc[t] = "gen_prove"
        /\ proof[s] # proof[t]

\* C3: when tryAggregateProofs returns with an error because the chained
\* tryBuildFinalProof(session, P) failed after the aggregation transaction
\* committed, the aggregated proof P this call inserted with generating=true
\* is not left in the store with generating=true.
C3_NoLeakAfterChainedFailure ==
    [][\A s \in Provers :
          (pc[s] = "agg_unlock_tbf" /\ pc'[s] # pc[s])
             => ~\E r \in proofs' : Key(r) = proof[s] /\ r.gen]_vars

\* C4: when tryBuildFinalProof passed the gate with a proof of its caller
\* and found the proof not eligible, verifyingProof is false again when the
\* calling operation (tryAggregateProofs, tryGenerateBatchProof) returns.
C4_GateReleasedAfterIneligible ==
    [][\A s \in Provers :
          (/\ pc[s] \in {"agg_release", "gen_release"}
           /\ lvb[s] # NoBatch
           /\ pc'[s] = "loop")
             => ~verifying']_vars

\* C5: no two distinct proof rows with generating=false cover a common batch.
C5_UnlockedDisjoint ==
    \A r1, r2 \in proofs :
        (r1 # r2 /\ ~r1.gen /\ ~r2.gen) => ~Overlap(Key(r1), Key(r2))

\* C5 witness: two unlocked proofs side by side.
C5_Witness ==
    \E r1, r2 \in proofs : r1 # r2 /\ ~r1.gen /\ ~r2.gen

C9_UnprofitableAborts ==
    [][\A s \in Provers :
          (pc[s] = "gen_nil" /\ pc'[s] # pc[s])
             => /\ pc'[s] = "loop"
                /\ ~crashed'
                /\ proofs' = proofs
                /\ mutex' # s]_vars

C11_ClosedBeforeDeadline ==
    [][\A s \in Provers :
          (pc[s] = "tbf_gate" /\ sendIn > 0 /\ pc'[s] # pc[s])
             => pc'[s] # "tbf_sync" /\ UNCHANGED gateVars]_vars

\* C11 witness: after Start() has reset the gate, a session is about to
\* call canVerifyProof() before the deadline with the flag clear.
C11_Witness ==
    \E s \in Provers :
        /\ pc[s] = "tbf_gate"
        /\ startPc = "running"
        /\ sendIn > 0
        /\ ~verifying

InitPairs ==
    /\ proofs = {Row(<<b, b>>, FALSE, TRUE) : b \in 1..(MaxBatch + 2)}
    /\ lastVerified = 0
    /\ ethVerified = 0
    /\ submitted = {}
    /\ virtual = MaxBatch + 2
    /\ sendIn = VerifyProofInterval
    /\ verifying = FALSE
    /\ mutex = "free"
    /\ ctxDone = FALSE
    /\ crashed = FALSE
    /\ startPc = "running"
    /\ pc = [s \in Provers |-> "off"]
    /\ caller = [s \in Provers |-> "loop"]
    /\ proof1 = [s \in Provers |-> Nil]
    /\ proof2 = [s \in Provers |-> Nil]
    /\ proof = [s \in Provers |-> Nil]
    /\ lvb = [s \in Provers |-> NoBatch]
    /\ dpc = "recv"
    /\ msg = Nil
    /\ finalProof = NoRoots
    /\ finalBatch = NoRoots
    /\ buildPc = "off"
    /\ idle = [s \in Provers |-> TRUE]
    /\ etx = NoEtx
    /\ etherman = NoEtherman

\* A step of session s in which no store call and no prover call fails:
\* a selection that has something to select selects it, and every update,
\* proof and transaction goes through.
NoFailure(s) ==
    /\ (pc[s] = "agg_select" /\ GetProofsToAggregate # {})
          => pc'[s] = "agg_stamp"
    /\ pc[s] = "agg_stamp" => pc'[s] = "agg_prove"
    /\ pc[s] = "agg_prove" => pc'[s] = "agg_commit"
    /\ pc[s] = "agg_commit" => pc'[s] = "tbf_gate"
    /\ pc[s] = "agg_release" => pc'[s] = "loop"
    /\ pc[s] = "gen_select"
          => pc'[s] = (IF BatchToProve = 0 THEN "loop" ELSE "gen_insert")
    /\ pc[s] = "gen_insert" => pc'[s] = "gen_prove"
    /\ pc[s] = "gen_prove" => pc'[s] = "tbf_gate"
    /\ pc[s] = "gen_release" => pc'[s] = "loop"
    /\ pc[s] = "tbf_lvb" => pc'[s] \in {"rtv_select", "tbf_validate"}
    /\ (pc[s] = "rtv_select" /\ GetProofReadyToVerify(lvb[s]) # {})
          => pc'[s] = "rtv_stamp"
    /\ pc[s] = "rtv_stamp" => pc'[s] = "tbf_build"
    /\ pc[s] = "tbf_validate" => pc'[s] # "tbf_enable"
    /\ pc[s] = "tbf_build" => pc'[s] = "tbf_send"

\* The scheduler loops of the two sessions while the deadline of the gate
\* is in the future and nothing fails.
NextPairs ==
    \E s \in Provers :
        \/ Connect(s)
        \/ LoopStart(s)
        \/ TbfGate(s)
        \/ AggSelect(s) /\ NoFailure(s)
        \/ AggStamp(s) /\ NoFailure(s)
        \/ AggProve(s) /\ NoFailure(s)
        \/ AggCommit(s) /\ NoFailure(s)
        \/ AggRelease(s) /\ NoFailure(s)
        \/ GenSelect(s) /\ NoFailure(s)

SpecPairs == InitPairs /\ [][NextPairs]_vars

\* The proofs session s has locked as the inputs of an aggregation.
AggInputs(s) ==
    IF pc[s] \in {"agg_prove", "agg_commit"} THEN {proof1[s], proof2[s]}
    ELSE {}

\* Both scheduler loops are between two iterations and the store offers
\* no pair to aggregate.
LoopsIdle ==
    /\ \A s \in Provers : pc[s] = "loop"
    /\ GetProofsToAggregate = {}

InitLive ==
    /\ proofs = {}
    /\ lastVerified \in {0, MaxBatch}
    /\ ethVerified = lastVerified
    /\ submitted = {}
    /\ virtual = MaxBatch + 1
    /\ sendIn = VerifyProofInterval
    /\ verifying = FALSE
    /\ mutex = "free"
    /\ ctxDone = FALSE
    /\ crashed = FALSE
    /\ startPc = "running"
    /\ pc = [s \in Provers |-> "off"]
    /\ caller = [s \in Provers |-> "loop"]
    /\ proof1 = [s \in Provers |-> Nil]
    /\ proof2 = [s \in Provers |-> Nil]
    /\ proof = [s \in Provers |-> Nil]
    /\ lvb = [s \in Provers |-> NoBatch]
    /\ dpc = "recv"
    /\ msg = Nil
    /\ finalProof = NoRoots
    /\ finalBatch = NoRoots
    /\ buildPc = "off"
    /\ idle = [s \in Provers |-> TRUE]
    /\ etx = NoEtx
    /\ etherman = NoEtherman

\* A step of a session that stays connected, with no failure.
SessionLive(s) ==
    \/ Connect(s)
    \/ LoopStart(s)
    \/ TbfGate(s)
    \/ TbfSync(s)
    \/ TbfLastVerified(s) /\ NoFailure(s)
    \/ RtvSelect(s) /\ NoFailure(s)
    \/ RtvStamp(s) /\ NoFailure(s)
    \/ TbfValidate(s) /\ NoFailure(s)
    \/ TbfBuild(s) /\ NoFailure(s)
    \/ TbfSend(s)
    \/ TbfEnable(s)
    \/ AggSelect(s) /\ NoFailure(s)
    \/ AggStamp(s) /\ NoFailure(s)
    \/ AggProve(s) /\ NoFailure(s)
    \/ AggCommit(s) /\ NoFailure(s)
    \/ AggRelease(s) /\ NoFailure(s)
    \/ GenSelect(s) /\ NoFailure(s)
    \/ GenInsert(s) /\ NoFailure(s)
    \/ GenProve(s) /\ NoFailure(s)
    \/ GenRelease(s) /\ NoFailure(s)

\* A step of the dispatcher with no failure.
DispatcherLive ==
    \/ DispVerifyOk
    \/ DispSync
    \/ DispReset
    \/ DispDelete /\ proofs' = DeleteGeneratedProofs(proofs, msg[1], msg[2])

NextLive ==
    \/ Tick
    \/ L1Mine
    \/ Sync
    \/ \E s \in Provers : SessionLive(s)
    \/ DispatcherLive

\* Every session and the dispatcher keep running, the clock advances, the
\* L1 mines what it can and the synchronizer follows it.
FairLive ==
    /\ WF_vars(Tick)
    /\ WF_vars(L1Mine)
    /\ WF_vars(Sync)
    /\ WF_vars(DispatcherLive)
    /\ \A s \in Provers : WF_vars(SessionLive(s))

SpecLive == InitLive /\ [][NextLive]_vars /\ FairLive

\* The batch ranges a proof can cover.
Ranges ==
    {k \in (1..(MaxBatch + 2)) \X (1..(MaxBatch + 2)) : k[1] <= k[2]}

\* The store holds an unlocked proof for range k that is ready to be
\* verified: it starts right after the last verified batch and contains
\* complete sequences.
ReadyToVerify(k) ==
    /\ lastVerified # NoBatch
    /\ k \in GetProofReadyToVerify(lastVerified)

\* C14: with sessions that keep running and no failure, once the deadline
\* of the gate has passed, a proof that is ready to be verified leads to a
\* VerifyBatches call for its range, unless the row leaves the store or the
\* last verified batch moves on.
C14_EventuallyVerified ==
    \A k \in Ranges :
        (ReadyToVerify(k) /\ sendIn < 0)
           ~> \/ (dpc = "sync" /\ msg = k)
              \/ ~\E r \in proofs : Key(r) = k
              \/ k[1] # lastVerified + 1

\* ------------------------------------------------- happy single-batch path
\* Session s is elevating, from tryGenerateBatchProof, the proof it has
\* just generated.
Elevating(s) ==
    /\ caller[s] = "gen"
    /\ pc[s] \in {"tbf_sync", "tbf_lvb", "tbf_validate", "tbf_build", "tbf_send"}

\* The dispatcher holds a final proof it has not yet deleted the row of.
DispatcherHolds == dpc \in {"verify", "sync", "reset", "delete"}

\* Session s has just generated the proof of batch b, the batch after the
\* last verified one and a sequence of its own, and has passed the gate;
\* the store is synced with the L1 and the L1 has no verification pending.
HappyStart(s, b) ==
    /\ pc[s] = "tbf_sync"
    /\ caller[s] = "gen"
    /\ proof[s] = <<b, b>>
    /\ lastVerified # NoBatch
    /\ lastVerified >= ethVerified
    /\ submitted = {}
    /\ b = lastVerified + 1
    /\ CheckProofContainsCompleteSequences(<<b, b>>)

\* C15: with no failure, a session that has just generated the proof of
\* the batch after the last verified one, with the gate open and the store
\* synced, hands that proof to the dispatcher, which reaches the deletion
\* of its row; the row stays generating=true from the elevation until it
\* is deleted; the dispatcher calls VerifyBatches(last verified, final
\* batch), leaves its sync loop only when the store is synced, and its
\* last step removes the row.
C15_HappySingleBatch ==
    /\ \A b \in 1..(MaxBatch + 1) :
          /\ (\E s \in Provers : HappyStart(s, b))
                ~> /\ dpc = "sync" /\ msg = <<b, b>>
                   /\ submitted = {<<lastVerified + 1, b>>}
          /\ (dpc = "sync" /\ msg = <<b, b>>)
                ~> (dpc = "delete" /\ msg = <<b, b>>)
    /\ [](\A s \in Provers :
             Elevating(s) => \E r \in proofs : Key(r) = proof[s] /\ r.gen)
    /\ [](DispatcherHolds => \E r \in proofs : Key(r) = msg /\ r.gen)
    /\ [][/\ ((dpc = "recv" /\ dpc' # dpc) =>
                 \E s \in Provers : pc[s] = "tbf_send" /\ msg' = proof[s])
           /\ ((dpc = "verify" /\ dpc' # dpc) => dpc' = "sync")
           /\ ((dpc = "sync" /\ dpc' # dpc) =>
                 (/\ lastVerified # NoBatch /\ lastVerified >= ethVerified
                  /\ dpc' = "reset"))
           /\ ((dpc = "reset" /\ dpc' # dpc) => dpc' = "delete")
           /\ ((dpc = "delete" /\ dpc' # dpc) =>
                 ~\E r \in proofs' : Key(r) = msg)]_vars

\* The dispatcher is about to delete the row of the proof of batch
\* MaxBatch + 1, verified on top of MaxBatch.
C15_Witness ==
    /\ dpc = "delete"
    /\ msg = <<MaxBatch + 1, MaxBatch + 1>>
    /\ lastVerified = MaxBatch
    /\ submitted = {msg}

\* ------------------------------------------------- cancellation, fair
\* The goroutines of the coordinator keep being scheduled: Start(), every
\* session and the dispatcher take a step when they can. Nothing is assumed
\* of the clock, the L1 or the synchronizer.
FairStop ==
    /\ WF_vars(StartServe \/ StartReset)
    /\ WF_vars(DispatcherStep)
    /\ \A s \in Provers : WF_vars(SessionStep(s))

SpecStop == Init /\ [][Next]_vars /\ FairStop

\* Every scheduler loop and the dispatcher have returned (or were never
\* started), or the process has ended.
Terminated ==
    \/ crashed
    \/ /\ startPc \in {"running", "failed"}
       /\ dpc \in {"off", "done"}
       /\ \A s \in Provers : pc[s] \in {"off", "done"}

\* C16: once the root context is cancelled, every scheduler loop and the
\* dispatcher eventually terminate.
C16_TerminatesAfterCancel == ctxDone ~> Terminated

\* ------------------------------------------------- who clears generating
\* This step takes the row of range k from generating=true to
\* generating=false.
Cleared(k) ==
    /\ \E r \in proofs : Key(r) = k /\ r.gen
    /\ \E r \in proofs' : Key(r) = k /\ ~r.gen

\* C17 as stated: a row goes from generating=true to generating=false only
\* in a step of the session that holds it; neither another session nor the
\* dispatcher clears it. (The startup sweep deletes rows, it clears none.)
C17_OnlyOwnerClears ==
    [][\A r \in proofs :
          (proofs' # proofs /\ Cleared(Key(r)))
             => \E s \in Provers : Key(r) \in Claimed(s) /\ pc'[s] # pc[s]]_vars

\* C17 amended: a row goes from generating=true to generating=false only
\* in a step of the session that holds it, or in the dispatcher's unlock of
\* the final proof it received, after VerifyBatches failed.
C17_OwnerOrDispatcherClears ==
    [][\A r \in proofs :
          (proofs' # proofs /\ Cleared(Key(r)))
             => \/ \E s \in Provers : Key(r) \in Claimed(s) /\ pc'[s] # pc[s]
                \/ (dpc = "unlock" /\ msg = Key(r) /\ dpc' = "enable")]_vars

\* C17 witness: the dispatcher has cleared the row of the final proof it
\* received, which no session holds any more.
C17_Witness ==
    /\ dpc = "enable"
    /\ \E r \in proofs : Key(r) = msg /\ ~r.gen
    /\ \A s \in Provers : msg \notin Claimed(s)

\* ------------------------------------------------- contiguous prefix
\* The batches covered by a proof row with generating=false.
UnlockedBatches ==
    {b \in 1..(MaxBatch + 2) : \E r \in proofs : ~r.gen /\ Covers(r, b)}

\* C18: the batches covered by the rows with generating=false are a
\* contiguous prefix of the batches after the last verified one: each of
\* them is after the last verified batch and every batch between the last
\* verified one and it is covered by such a row too.
C18_UnlockedPrefix ==
    LET lv == IF lastVerified = NoBatch THEN 0 ELSE lastVerified
    IN \A b \in UnlockedBatches :
          b > lv /\ \A c \in (lv + 1)..b : c \in UnlockedBatches

\* ------------------------------------------------- one row per range
\* C19: the store holds at most one proof row for any range
\* [batch_number, batch_number_final].
C19_OneRowPerRange ==
    \A r1, r2 \in proofs : Key(r1) = Key(r2) => r1 = r2

\* C19 witness: an aggregation has replaced its two inputs by one row,
\* which is unlocked.
C19_Witness ==
    \E r \in proofs : r.bn < r.bnf /\ ~r.gen

\* ------------------------------------------------- buildFinalProof
\* The roots a prover can return: the two sentinels and two other values.
ProverRoots == {mockedStateRoot, mockedLocalExitRoot, "0xa1", "0xa2"}

\* The roots of a batch row: finalBatch.StateRoot.Bytes() and
\* finalBatch.LocalExitRoot.Bytes() are 32 raw bytes, never the text of a
\* sentinel.
BatchRoots == {"0xb1", "0xb2", "0xb3"}

\* WaitFinalProof has just returned finalProof; the store holds the row of
\* the final batch with roots finalBatch. Nothing else runs.
InitBuild ==
    /\ finalProof \in {RootPair(sr, ler) : sr \in ProverRoots, ler \in ProverRoots}
    /\ finalBatch \in {RootPair(sr, ler) : sr \in BatchRoots, ler \in BatchRoots}
    /\ buildPc = "check"
    /\ proofs = {}
    /\ lastVerified = 0
    /\ ethVerified = 0
    /\ submitted = {}
    /\ virtual = MaxBatch
    /\ sendIn = VerifyProofInterval
    /\ verifying = TRUE
    /\ mutex = "free"
    /\ ctxDone = FALSE
    /\ crashed = FALSE
    /\ startPc = "running"
    /\ pc = [s \in Provers |-> "off"]
    /\ caller = [s \in Provers |-> "loop"]
    /\ proof1 = [s \in Provers |-> Nil]
    /\ proof2 = [s \in Provers |-> Nil]
    /\ proof = [s \in Provers |-> Nil]
    /\ lvb = [s \in Provers |-> NoBatch]
    /\ dpc = "recv"
    /\ msg = Nil
    /\ idle = [s \in Provers |-> TRUE]
    /\ etx = NoEtx
    /\ etherman = NoEtherman

\* A faulty sanity check: one sentinel is enough.
LooksMockedEither(fp) ==
    \/ fp.NewStateRoot = mockedStateRoot
    \/ fp.NewLocalExitRoot = mockedLocalExitRoot

\* string(finalProof.Public.NewStateRoot) == mockedStateRoot &&
\* string(finalProof.Public.NewLocalExitRoot) == mockedLocalExitRoot
LooksMocked(fp) ==
    /\ fp.NewStateRoot = mockedStateRoot
    /\ fp.NewLocalExitRoot = mockedLocalExitRoot

\* buildFinalProof after WaitFinalProof: the mock prover sanity check. When
\* it matches, GetBatchByNumber either fails (return nil, err) or gives the
\* row whose roots replace the prover's; otherwise return finalProof, nil.
BuildSanityCheck ==
    /\ buildPc = "check"
    /\ IF LooksMocked(finalProof)
       THEN \E ok \in BOOLEAN :
               IF ok
               THEN /\ finalProof' = RootPair(finalBatch.NewStateRoot,
                                              finalBatch.NewLocalExitRoot)
                    /\ buildPc' = "returned"
               ELSE /\ buildPc' = "failed"
                    /\ UNCHANGED finalProof
       ELSE /\ buildPc' = "returned"
            /\ UNCHANGED finalProof
    /\ UNCHANGED <<storeVars, l1Vars, gateVars, mutex, ctxDone, crashed,
                   startPc, sessVars, dispVars, finalBatch, idle, renewVars>>

NextBuild == BuildSanityCheck

SpecBuild == InitBuild /\ [][NextBuild]_vars

\* C20: the final proof buildFinalProof returns carries the roots of the
\* final batch's row, both of them, when both roots the prover returned
\* equal the mock-prover sentinels; when neither or only one of them does,
\* it carries both roots exactly as the prover returned them.
C20_SentinelSubstitution ==
    [][(buildPc = "check" /\ buildPc' = "returned") =>
         IF /\ finalProof.NewStateRoot = mockedStateRoot
            /\ finalProof.NewLocalExitRoot = mockedLocalExitRoot
         THEN /\ finalProof'.NewStateRoot = finalBatch.NewStateRoot
              /\ finalProof'.NewLocalExitRoot = finalBatch.NewLocalExitRoot
         ELSE finalProof' = finalProof]_vars

\* C20 witness: a final proof was returned with the roots of the batch row
\* in place of the prover's.
C20_Witness ==
    /\ buildPc = "returned"
    /\ finalProof = finalBatch

\* ------------------------------------------------- dispatcher order
\* C21: in a dispatcher run where VerifyBatches succeeds the steps come in
\* this order: VerifyBatches returns a tx, isSynced() is observed true,
\* resetVerifyProofTime() is called, the proofs of the range are deleted.
\* While the dispatcher waits for isSynced() the deadline of the gate is
\* not reset and the row of the proof is not deleted.
C21_DispatcherOrder ==
    [][/\ ((dpc = "verify" /\ dpc' = "sync") => msg \in submitted')
       /\ (dpc = "sync" =>
              (/\ sendIn' <= sendIn
               /\ \E r \in proofs' : Key(r) = msg))
       /\ ((dpc = "sync" /\ dpc' # dpc) =>
              (/\ lastVerified # NoBatch /\ lastVerified >= ethVerified
               /\ dpc' = "reset"))
       /\ ((dpc = "reset" /\ dpc' # dpc) =>
              (/\ dpc' = "delete"
               /\ ~verifying' /\ sendIn' = VerifyProofInterval
               /\ proofs' = proofs))
       /\ ((dpc = "delete" /\ dpc' # dpc) =>
              (/\ dpc' = "recv"
               /\ \/ proofs' = DeleteGeneratedProofs(proofs, msg[1], msg[2])
                  \/ proofs' = proofs))
       /\ (dpc' = "reset" => dpc \in {"sync", "reset"})
       /\ (dpc' = "delete" => dpc \in {"reset", "delete"})]_vars

\* C21 witness: the dispatcher has left its sync loop after the L1 mined
\* its transaction and the synchronizer caught up.
C21_Witness ==
    /\ dpc = "reset"
    /\ ethVerified = msg[2]
    /\ lastVerified = msg[2]

\* ------------------------------------------------- only eligible proofs
\* C22: a proof tryBuildFinalProof is building a final proof of, or is
\* handing to the dispatcher, starts right after the last verified batch
\* the call read after its sync loop and contains complete sequences; the
\* dispatcher receives exactly that proof, and its VerifyBatches call is
\* for the range of the proof (first argument batch_number - 1, second
\* argument batch_number_final).
C22_OnlyEligibleElevated ==
    /\ [](\A s \in Provers :
             pc[s] \in {"tbf_build", "tbf_send"} =>
                (/\ proof[s][1] = lvb[s] + 1
                 /\ CheckProofContainsCompleteSequences(proof[s])))
    /\ [][/\ ((dpc = "recv" /\ dpc' = "verify") =>
                 \E s \in Provers : pc[s] = "tbf_send" /\ msg' = proof[s])
           /\ ((dpc = "verify" /\ dpc' = "sync") =>
                 submitted' = submitted \cup {msg})]_vars

\* C22 witness: VerifyBatches was called for a proof that starts right
\* after the last verified batch and contains complete sequences.
C22_Witness ==
    /\ dpc = "sync"
    /\ msg \in submitted
    /\ msg[1] = lastVerified + 1
    /\ CheckProofContainsCompleteSequences(msg)

\* ------------------------------------------------- aggregation replaces
\* Session s is in tryAggregateProofs after its replace transaction
\* committed: in the chained tryBuildFinalProof or at the release of P.
AfterReplace(s) ==
    \/ pc[s] = "agg_release"
    \/ /\ caller[s] = "agg"
       /\ pc[s] \in {"tbf_gate", "tbf_sync", "tbf_lvb", "tbf_validate",
                     "tbf_build", "tbf_send"}

\* C23: the replace transaction of tryAggregateProofs takes adjacent
\* inputs p1, p2 and leaves, in one step, exactly one row over
\* [p1.bn, p2.bnf], the aggregated proof P with generating=true; from the
\* commit until tryAggregateProofs returns P is the only row over its
\* range; when tryAggregateProofs returns (true, nil) without
\* tryBuildFinalProof having consumed P, P has generating=false.
C23_AggregationReplaces ==
    /\ [](\A s \in Provers :
             AfterReplace(s) =>
                (/\ Row(proof[s], TRUE, TRUE) \in proofs
                 /\ \A r \in proofs :
                       Overlap(Key(r), proof[s]) => Key(r) = proof[s]))
    /\ [][\A s \in Provers :
             /\ ((pc[s] = "agg_commit" /\ pc'[s] = "tbf_gate") =>
                   (/\ proof1[s][2] + 1 = proof2[s][1]
                    /\ proof'[s] = <<proof1[s][1], proof2[s][2]>>
                    /\ \A k \in {proof1[s], proof2[s]} :
                          \E r \in proofs : Key(r) = k
                    /\ {r \in proofs' : Overlap(Key(r), proof'[s])}
                          = {Row(proof'[s], TRUE, TRUE)}))
             /\ ((pc[s] = "agg_release" /\ pc'[s] = "loop") =>
                   Row(proof[s], FALSE, TRUE) \in proofs')]_vars

\* C23 witness: the replace transaction has committed and the chained
\* tryBuildFinalProof did not consume P: the session is about to set P's
\* generating=false.
C23_Witness ==
    \E s \in Provers :
        /\ pc[s] = "agg_release"
        /\ proofs = {Row(proof[s], TRUE, TRUE)}

\* ------------------------------------------------- scheduler loop order
\* Start() has completed; the provers may or may not be idle.
InitLoop ==
    /\ proofs = {}
    /\ lastVerified = 0
    /\ ethVerified = 0
    /\ submitted = {}
    /\ virtual = MaxBatch
    /\ sendIn = VerifyProofInterval
    /\ verifying = FALSE
    /\ mutex = "free"
    /\ ctxDone = FALSE
    /\ crashed = FALSE
    /\ startPc = "running"
    /\ pc = [s \in Provers |-> "off"]
    /\ caller = [s \in Provers |-> "loop"]
    /\ proof1 = [s \in Provers |-> Nil]
    /\ proof2 = [s \in Provers |-> Nil]
    /\ proof = [s \in Provers |-> Nil]
    /\ lvb = [s \in Provers |-> NoBatch]
    /\ dpc = "recv"
    /\ msg = Nil
    /\ finalProof = NoRoots
    /\ finalBatch = NoRoots
    /\ buildPc = "off"
    /\ idle \in [Provers -> BOOLEAN]
    /\ etx = NoEtx
    /\ etherman = NoEtherman

\* The remote worker of a session that is between two iterations becomes
\* busy, or idle again.
ProverIdleChanges(s) ==
    /\ ~crashed
    /\ pc[s] = "loop"
    /\ idle' = [idle EXCEPT ![s] = ~idle[s]]
    /\ UNCHANGED <<storeVars, l1Vars, gateVars, mutex, ctxDone, crashed,
                   startPc, sessVars, dispVars, buildVars, renewVars>>

\* Channel(): default, !prover.IsIdle(): time.Sleep(RetryTime); continue
LoopSkip(s) ==
    /\ ~crashed
    /\ pc[s] = "loop"
    /\ ~ctxDone
    /\ ~idle[s]
    /\ UNCHANGED vars

NextLoop ==
    \/ Tick \/ L1Mine \/ Sync \/ Stop
    \/ DispatcherStep
    \/ \E s \in Provers : SessionStep(s) \/ LoopSkip(s) \/ ProverIdleChanges(s)

SpecLoop == InitLoop /\ [][NextLoop]_vars

\* The positions of a session inside tryBuildFinalProof.
TbfPcs ==
    {"tbf_gate", "tbf_sync", "tbf_lvb", "rtv_select", "rtv_stamp",
     "tbf_validate", "tbf_build", "tbf_send", "tbf_unlock", "tbf_enable"}

\* The positions of a session inside tryAggregateProofs, outside the
\* chained tryBuildFinalProof.
AggPcs ==
    {"agg_select", "agg_stamp", "agg_prove", "agg_commit", "agg_release"}
       \cup AggErrReturns

\* The positions of a session inside tryGenerateBatchProof, outside the
\* chained tryBuildFinalProof.
GenPcs ==
    {"gen_select", "gen_nil", "gen_insert", "gen_prove", "gen_release",
     "gen_cleanup"}

StampPcs == {"rtv_stamp", "agg_stamp", "gen_insert"}

\* The positions where a session is about to call StateDBMutex.Lock().
SelectPcs == {"rtv_select", "agg_select", "gen_select"}

\* Go's sync.Mutex hands the lock to a goroutine that has waited for it
\* (starvation mode): a session that can take the mutex again and again
\* eventually takes it.
FairMutex ==
    /\ WF_vars(DispatcherStep)
    /\ \A s \in Provers : SF_vars(SessionStep(s))

SpecMutex == Init /\ [][Next]_vars /\ FairMutex

\* C25: StateDBMutex is held only between a selection and its stamping (no
\* session holds it during a prover call, a sync wait, a sleep or the
\* channel send), every step that ends the stamping, failed or not, releases
\* it, and no session waits for the mutex forever.
C25_MutexOnlyAroundSelection ==
    /\ [](/\ mutex \in Provers \cup {"free"}
          /\ \A s \in Provers : (mutex = s) <=> (pc[s] \in StampPcs))
    /\ [][\A s \in Provers :
             /\ ((mutex = s /\ pc'[s] # pc[s]) => mutex' = "free")
             /\ ((mutex # s /\ mutex' = s) =>
                    (/\ mutex = "free"
                     /\ pc[s] \in SelectPcs))]_vars
    /\ \A s \in Provers :
          (pc[s] \in SelectPcs) ~> (pc[s] \notin SelectPcs \/ crashed)

\* C25 witness: one session holds the mutex between its selection and its
\* stamping while another session waits at its own selection.
C25_Witness ==
    \E s, t \in Provers :
       /\ mutex = s
       /\ pc[s] = "agg_stamp"
       /\ pc[t] \in SelectPcs


\* C26: whenever the dispatcher abandons a received message and re-opens
\* the gate, the proof row of the message is in the store with
\* generating = false, so that tryBuildFinalProof(session, nil) can select
\* it again.
C26_AbandonedMessageUnlocked ==
    [][(dpc \in {"verify", "enable"} /\ dpc' = "recv")
          => \E r \in proofs' : Key(r) = msg /\ ~r.gen]_vars


\* C27: the verifyingProof flag set by a session's canVerifyProof() is
\* cleared only by that session's own failure path or by the dispatcher
\* handling that session's message: Start()'s resetVerifyProofTime() never
\* clears a flag a connected session holds, and no session passes the gate
\* before Start() has initialised the deadline.
C27_FlagClearedByHolderOnly ==
    [][/\ ((verifying /\ ~verifying') =>
              \/ \E s \in GateSessions : pc'[s] # pc[s]
              \/ (DispatcherBusy /\ dpc' # dpc))
       /\ \A s \in Provers :
             (pc[s] = "tbf_gate" /\ pc'[s] = "tbf_sync")
                => startPc = "running"]_vars


\* C28: after a VerifyBatches call for a range has returned successfully,
\* no later VerifyBatches call covers a batch of that range: the range of
\* a call overlaps neither a tx that an earlier call left pending nor the
\* batches the L1 has verified through earlier calls.
C28_NoBatchSubmittedTwice ==
    [][(dpc = "verify" /\ dpc' = "sync")
          => /\ msg[1] > ethVerified
             /\ \A t \in submitted : ~Overlap(t, msg)]_vars


\* ------------------------------------------------ RenewTxIfNeeded
\* The largest nonce and the largest gas limit of an enqueued tx.
MaxNonce == 1
MaxGas == 2

\* The enqueued txs: a tx the transaction manager built earlier (id 0), of
\* either kind, with any nonce and gas limit.
EnqueuedTxs ==
    {[kind |-> k, tx |-> Tx(0, n, g, 1), pc |-> "call", err |-> "nil"] :
        k \in {"sequences", "verify"}, n \in 0..MaxNonce, g \in 1..MaxGas}

\* What the etherman answers: EstimateGas... fails or returns an estimate;
\* building the replacement fails or succeeds; the account's current nonce
\* and the network's gas price are what a tx built with nil gets.
EthermanAnswers ==
    [estimateOk : BOOLEAN, estimate : 1..(MaxGas + 1), buildOk : BOOLEAN,
     nonce : 0..MaxNonce, gasPrice : {2}]

InitRenew ==
    /\ etx \in EnqueuedTxs
    /\ etherman \in EthermanAnswers
    /\ proofs = {}
    /\ lastVerified = 0
    /\ ethVerified = 0
    /\ submitted = {}
    /\ virtual = MaxBatch
    /\ sendIn = VerifyProofInterval
    /\ verifying = FALSE
    /\ mutex = "free"
    /\ ctxDone = FALSE
    /\ crashed = FALSE
    /\ startPc = "running"
    /\ pc = [s \in Provers |-> "off"]
    /\ caller = [s \in Provers |-> "loop"]
    /\ proof1 = [s \in Provers |-> Nil]
    /\ proof2 = [s \in Provers |-> Nil]
    /\ proof = [s \in Provers |-> Nil]
    /\ lvb = [s \in Provers |-> NoBatch]
    /\ dpc = "recv"
    /\ msg = Nil
    /\ finalProof = NoRoots
    /\ finalBatch = NoRoots
    /\ buildPc = "off"
    /\ idle = [s \in Provers |-> TRUE]

\* e.SequenceBatches / e.VerifyBatches(ctx, ..., gas, nil, nonce,
\* noSend = true): the tx the etherman builds, a new one with the gas limit
\* and the nonce it is given and, for the nil gas price, the network's.
EthermanBuild(gas, nonce) == Tx(1, nonce, gas, etherman.gasPrice)

\* enqueuedSequencesTx.renewGas: the result is the inner tx afterwards and
\* the error returned.
renewGasSequences(oldTx) ==
    IF etherman.buildOk
    THEN [tx |-> EthermanBuild(oldTx.gas, oldTx.nonce), err |-> "nil"]
    ELSE [tx |-> oldTx, err |-> "build"]

\* A faulty renewGas: the replacement is built with the account's current
\* nonce (a nil nonce) instead of the old tx's.
renewGasFreshNonce(oldTx) ==
    IF etherman.buildOk
    THEN [tx |-> EthermanBuild(oldTx.gas, etherman.nonce), err |-> "nil"]
    ELSE [tx |-> oldTx, err |-> "build"]

\* enqueuedVerifyBatchesTx.renewGas
renewGasVerifyBatches(oldTx) ==
    IF etherman.buildOk
    THEN [tx |-> EthermanBuild(oldTx.gas, oldTx.nonce), err |-> "nil"]
    ELSE [tx |-> oldTx, err |-> "build"]

\* enqueuedSequencesTx.RenewTxIfNeeded
SequencesRenewTxIfNeeded ==
    /\ etx.pc = "call"
    /\ etx.kind = "sequences"
    /\ LET r == IF ~etherman.estimateOk
                THEN [tx |-> etx.tx, err |-> "estimate"]
                ELSE IF etherman.estimate > etx.tx.gas
                     THEN renewGasSequences(etx.tx)
                     ELSE [tx |-> etx.tx, err |-> "nil"]
       IN etx' = [etx EXCEPT !.tx = r.tx, !.err = r.err, !.pc = "done"]
    /\ UNCHANGED <<storeVars, l1Vars, gateVars, mutex, ctxDone, crashed,
                   startPc, sessVars, dispVars, buildVars, idle, etherman>>

\* enqueuedVerifyBatchesTx.RenewTxIfNeeded
VerifyBatchesRenewTxIfNeeded ==
    /\ etx.pc = "call"
    /\ etx.kind = "verify"
    /\ LET r == IF ~etherman.estimateOk
                THEN [tx |-> etx.tx, err |-> "estimate"]
                ELSE IF etherman.estimate > etx.tx.gas
                     THEN renewGasVerifyBatches(etx.tx)
                     ELSE [tx |-> etx.tx, err |-> "nil"]
       IN etx' = [etx EXCEPT !.tx = r.tx, !.err = r.err, !.pc = "done"]
    /\ UNCHANGED <<storeVars, l1Vars, gateVars, mutex, ctxDone, crashed,
                   startPc, sessVars, dispVars, buildVars, idle, etherman>>

NextRenew == SequencesRenewTxIfNeeded \/ VerifyBatchesRenewTxIfNeeded

SpecRenew == InitRenew /\ [][NextRenew]_vars

====
